---- MODULE Spec2Model ----
(***************************************************************************)
(* Model of runAllTests.py: test discovery, execution under coverage,      *)
(* report generation and the per-commit ledger (.db.json).                 *)
(***************************************************************************)
EXTENDS Integers, Sequences, FiniteSets, TLC

VARIABLES
    db_file,    \* the ledger file <logdir>/.db.json on disk
    disk,       \* the test modules on disk: what TestLoader.discover finds
    pc,         \* position of the running process
    entry,      \* "main" (script run) or "lib" (run_tests called directly)
    args,       \* parsed command line: commit, is_default, dry_run
    params,     \* run_tests parameters: complete, strict, dry_run
    ci_tests,   \* the gathered suite
    executed,   \* identifiers of the Cases the runner has executed
    result,     \* unittest.TestResult: testsRun, failures, errors
    cov,        \* state of the Coverage object
    total,      \* value returned by generate_coverage_report
    rendered,   \* what html_report and xml_report did in this process
    html,       \* the *.html files of the report directory
    report,     \* the record built for this run
    records,    \* the record list held in memory
    exc,        \* the exception that ended the process, "" when none
    runs,       \* number of processes started so far
    db_before   \* content of the ledger file when the process started

vars == <<db_file, disk, pc, entry, args, params, ci_tests, executed, result,
          cov, total, rendered, html, report, records, exc, runs, db_before>>

(***************************************************************************)
(* Bounds                                                                  *)
(***************************************************************************)
MaxRuns == 2
MaxCases == 1
MaxFailed == 1
MaxHtml == 2
MaxLen == 6

Commits == {"abc", "def"}
Outcomes == {"pass", "fail", "error", "unexpected success"}
Percents == {87}

(***************************************************************************)
(* Suite trees                                                             *)
(***************************************************************************)
Case(cls, name) == [suite |-> FALSE, tests |-> <<>>, cls |-> cls, name |-> name]

TestSuite(tests) == [suite |-> TRUE, tests |-> tests, cls |-> "TestSuite", name |-> ""]

\* the None that TestSuite.run leaves in _tests in place of a test it has run
NoneNode == [suite |-> FALSE, tests |-> <<>>, cls |-> "NoneType", name |-> ""]

\* Python's None as an item of a list of identifiers (JSON null)
NoneId == "None"

\* unittest.loader._FailedTest: the stand-in for a module that failed to import
FailedImport(module) == Case("_FailedTest", module)

\* ('brainbox', 'oneibl', 'ibllib', 'alf')
test_dirs == 4

test_dir_names == <<"brainbox", "oneibl", "ibllib", "alf">>

RECURSIVE Leaves(_)
RECURSIVE LeavesOfSeq(_)
\* the Cases of a suite in the order the runner iterates them
Leaves(node) == IF node.suite THEN LeavesOfSeq(node.tests) ELSE <<node>>

LeavesOfSeq(s) == IF s = <<>> THEN <<>> ELSE Leaves(Head(s)) \o LeavesOfSeq(Tail(s))

\* ibllib.misc.flatten applied to a list whose items are strings or flat lists
RECURSIVE flatten(_)
flatten(items) ==
    IF items = <<>> THEN <<>>
    ELSE (IF Head(items).is_list THEN Head(items).val ELSE <<Head(items).val>>)
         \o flatten(Tail(items))

RECURSIVE list_tests(_)
RECURSIVE list_tests_each(_)
list_tests(suite) ==
    IF suite.suite
    THEN flatten(list_tests_each(suite.tests))
    ELSE IF suite # NoneNode
    THEN suite.cls \o "/" \o suite.name
    ELSE NoneId

\* [list_tests(x) for x in suite]
list_tests_each(lst) ==
    IF lst = <<>> THEN <<>>
    ELSE <<[is_list |-> Head(lst).suite, val |-> list_tests(Head(lst))]>>
         \o list_tests_each(Tail(lst))

startswith(x, prefix) ==
    /\ Len(x) >= Len(prefix)
    /\ SubSeq(x, 1, Len(prefix)) = prefix

\* [x[12:] for x in list_tests(ci_tests) if x.startswith('_Failed')]
not_loaded(suite) ==
    LET failed == SelectSeq(list_tests(suite), LAMBDA x : startswith(x, "_Failed"))
    IN  [i \in 1..Len(failed) |-> SubSeq(failed[i], 13, Len(failed[i]))]

(***************************************************************************)
(* What discovery can find on disk                                         *)
(***************************************************************************)
CiTrees ==
    { TestSuite(<<>>),
      TestSuite(<<TestSuite(<<TestSuite(<<Case("TestCI", "test_a")>>)>>)>>),
      TestSuite(<<FailedImport("ci.tests.test_b")>>),
      TestSuite(<<TestSuite(<<TestSuite(<<Case("TestCI", "test_a")>>)>>),
                  FailedImport("ci.tests.test_b")>>),
      TestSuite(<<TestSuite(<<TestSuite(<<Case("TestCI", "test_a"),
                                          Case("TestCI", "test_c")>>)>>)>>),
      TestSuite(<<FailedImport("ci.tests.test_b"),
                  TestSuite(<<TestSuite(<<Case("TestCI", "test_a")>>)>>),
                  FailedImport("ci.tests.test_d")>>) }

\* what discover finds under the i-th unit test folder
UnitTrees(i) ==
    { TestSuite(<<>>),
      TestSuite(<<TestSuite(<<TestSuite(
          <<Case("TestUnit", "test_" \o test_dir_names[i])>>)>>)>>) }

UnitChoices ==
    { u \in [1..test_dirs -> UNION { UnitTrees(i) : i \in 1..test_dirs }] :
        \A i \in 1..test_dirs : u[i] \in UnitTrees(i) }

AllDisks == [ci : CiTrees, units : UnitChoices]

IsFailedImport(leaf) == leaf.cls = "_FailedTest"

DiskLeaves(d) == Leaves(d.ci) \o LeavesOfSeq(d.units)

Disks == { d \in AllDisks :
             /\ Len(SelectSeq(DiskLeaves(d), LAMBDA l : ~IsFailedImport(l))) <= MaxCases
             /\ Len(SelectSeq(DiskLeaves(d), IsFailedImport)) <= MaxFailed }

(***************************************************************************)
(* Values                                                                  *)
(***************************************************************************)
None == [some |-> FALSE, val |-> 0]
Some(v) == [some |-> TRUE, val |-> v]

Absent == [kind |-> "absent", recs |-> <<>>]
Doc(recs) == [kind |-> "doc", recs |-> recs]
\* a document cut short: not parseable as JSON
Partial(recs) == [kind |-> "partial", recs |-> recs]

EmptyResult == [testsRun |-> 0, failures |-> <<>>, errors |-> <<>>,
                unexpectedSuccesses |-> <<>>]
NoReport == [commit |-> "", results |-> <<>>, status |-> "", description |-> "",
             coverage |-> None]
NotRendered == [called |-> FALSE, html_ok |-> FALSE, xml_ok |-> FALSE]
NoArgs == [commit |-> "", is_default |-> TRUE, dry_run |-> FALSE]
NoParams == [complete |-> TRUE, strict |-> TRUE, dry_run |-> FALSE]

\* ibllib version string, the default of --commit
version == "1.4.14"

Ended == {"idle", "done", "aborted", "crashed", "returned"}

\* no process has run yet
Idle ==
    /\ db_file = Absent
    /\ pc = "idle"
    /\ entry = "main"
    /\ args = NoArgs
    /\ params = NoParams
    /\ ci_tests = TestSuite(<<>>)
    /\ executed = <<>>
    /\ result = EmptyResult
    /\ cov = "none"
    /\ total = None
    /\ rendered = NotRendered
    /\ html = <<>>
    /\ report = NoReport
    /\ records = <<>>
    /\ exc = ""
    /\ runs = 0
    /\ db_before = Absent

Init ==
    /\ disk \in Disks
    /\ Idle

\* state of a fresh process
Fresh ==
    /\ ci_tests' = TestSuite(<<>>)
    /\ executed' = <<>>
    /\ result' = EmptyResult
    /\ cov' = "none"
    /\ total' = None
    /\ rendered' = NotRendered
    /\ html' = <<>>
    /\ report' = NoReport
    /\ records' = <<>>
    /\ exc' = ""
    /\ runs' = runs + 1
    /\ db_before' = db_file

\* python runAllTests.py [--commit c] [--dry-run]: lines 141-171
Main(commit, given, dry_run) ==
    /\ pc \in Ended
    /\ runs < MaxRuns
    /\ pc' = "discover"
    /\ entry' = "main"
    /\ args' = [commit |-> IF given THEN commit ELSE version,
                is_default |-> ~given, dry_run |-> dry_run]
    /\ params' = [complete |-> TRUE, strict |-> TRUE, dry_run |-> dry_run]
    /\ Fresh
    /\ UNCHANGED <<db_file, disk>>

\* run_tests(complete, strict, dry_run) called from another module
CallRunTests(complete, strict, dry_run) ==
    /\ pc \in Ended
    /\ runs < MaxRuns
    /\ pc' = "discover"
    /\ entry' = "lib"
    /\ args' = NoArgs
    /\ params' = [complete |-> complete, strict |-> strict, dry_run |-> dry_run]
    /\ Fresh
    /\ UNCHANGED <<db_file, disk>>

Raise(e) ==
    /\ pc' = "aborted"
    /\ exc' = e

\* ci_tests = unittest.TestSuite((ci_tests, *unit_tests)) for each test dir
RECURSIVE Gather_prepend(_, _, _)
Gather_prepend(suite, units, n) ==
    IF n = 0 THEN suite
    ELSE LET prev == Gather_prepend(suite, units, n - 1)
         IN  TestSuite(units[n].tests \o <<prev>>)

RECURSIVE Gather(_, _, _)
Gather(suite, units, n) ==
    IF n = 0 THEN suite
    ELSE LET prev == Gather(suite, units, n - 1)
         IN  TestSuite(<<prev>> \o units[n].tests)

\* lines 93-108
Discover ==
    /\ pc = "discover"
    /\ \E dirs_exist \in BOOLEAN :
         IF params.complete /\ ~dirs_exist
         THEN /\ Raise("AssertionError: unit test folders")
              /\ UNCHANGED ci_tests
         ELSE /\ ci_tests' = IF params.complete
                             THEN Gather(disk.ci, disk.units, test_dirs)
                             ELSE disk.ci
              /\ pc' = "validate"
              /\ UNCHANGED exc
    /\ UNCHANGED <<db_file, disk, entry, args, params, executed, result, cov,
                   total, rendered, html, report, records, runs, db_before>>

ImportCheckFails_always(suite, strict) == Len(not_loaded(suite)) # 0

ImportCheckFails_inverted(suite, strict) == Len(not_loaded(suite)) # 0 /\ ~strict

\* lines 111-113: the assert fails
ImportCheckFails(suite, strict) == Len(not_loaded(suite)) # 0 /\ strict

IsDryRun_never(p) == FALSE

\* line 116
IsDryRun(p) == p.dry_run

\* lines 109-117
Validate ==
    /\ pc = "validate"
    /\ IF ImportCheckFails(ci_tests, params.strict)
       THEN /\ Raise("AssertionError: failed to import")
            /\ UNCHANGED <<result, cov>>
       ELSE IF IsDryRun(params)
       THEN /\ result' = EmptyResult
            /\ cov' = "configured"
            /\ pc' = IF entry = "main" THEN "report" ELSE "returned"
            /\ UNCHANGED exc
       ELSE /\ pc' = "cov_start"
            /\ UNCHANGED <<result, cov, exc>>
    /\ UNCHANGED <<db_file, disk, entry, args, params, ci_tests, executed,
                   total, rendered, html, report, records, runs, db_before>>

\* lines 119-121
CovStart ==
    /\ pc = "cov_start"
    /\ cov' = "started"
    /\ pc' = "run"
    /\ UNCHANGED <<db_file, disk, entry, args, params, ci_tests, executed,
                   result, total, rendered, html, report, records, exc, runs, db_before>>

\* TestSuite.run drops its reference to each test it has run: the top-level
\* entries whose Cases are among the first k executed are None afterwards
RECURSIVE Cleaned(_, _)
Cleaned(tests, k) ==
    IF tests = <<>> THEN <<>>
    ELSE LET n == Len(Leaves(Head(tests)))
         IN  IF n <= k
             THEN <<NoneNode>> \o Cleaned(Tail(tests), k - n)
             ELSE tests

\* the (test, err) pairs of the tests whose outcome is kind, in run order
RECURSIVE Collect(_, _, _, _)
Collect(leaves, outcome, kind, text) ==
    IF leaves = <<>> THEN <<>>
    ELSE (IF Head(outcome) = kind
          THEN <<[test |-> Head(leaves), err |-> text]>> ELSE <<>>)
         \o Collect(Tail(leaves), Tail(outcome), kind, text)

\* a _FailedTest raises the import error when it is run
PossibleOutcomes(leaves) ==
    { o \in [1..Len(leaves) -> Outcomes] :
        \A i \in 1..Len(leaves) : IsFailedImport(leaves[i]) => o[i] = "error" }

\* unittest.TextTestRunner(verbosity=2).run(ci_tests), line 123
RunSuite ==
    /\ pc = "run"
    /\ LET leaves == Leaves(ci_tests)
       IN  \/ \E o \in PossibleOutcomes(leaves) :
                /\ executed' = [i \in 1..Len(leaves) |-> list_tests(leaves[i])]
                /\ result' = [testsRun |-> Len(leaves),
                              failures |-> Collect(leaves, o, "fail", "AssertionError"),
                              errors |-> Collect(leaves, o, "error", "Exception"),
                              unexpectedSuccesses |->
                                  Collect(leaves, o, "unexpected success", "")]
                /\ ci_tests' = TestSuite(Cleaned(ci_tests.tests, Len(leaves)))
                /\ pc' = "cov_stop"
                /\ UNCHANGED exc
           \* the runner does not catch KeyboardInterrupt: it leaves run()
           \/ \E k \in 0..Len(leaves) :
                /\ executed' = [i \in 1..k |-> list_tests(leaves[i])]
                /\ ci_tests' = TestSuite(Cleaned(ci_tests.tests, k))
                /\ Raise("KeyboardInterrupt")
                /\ UNCHANGED result
    /\ UNCHANGED <<db_file, disk, entry, args, params, cov, total,
                   rendered, html, report, records, runs, db_before>>

CovStop_skipped ==
    /\ pc = "cov_stop"
    /\ pc' = IF entry = "main" THEN "report" ELSE "returned"
    /\ UNCHANGED <<db_file, disk, entry, args, params, ci_tests, executed, result,
                   cov, total, rendered, html, report, records, exc, runs, db_before>>

\* lines 125-128
CovStop ==
    /\ pc = "cov_stop"
    /\ cov' = "saved"
    /\ pc' = IF entry = "main" THEN "report" ELSE "returned"
    /\ UNCHANGED <<db_file, disk, entry, args, params, ci_tests, executed,
                   result, total, rendered, html, report, records, exc, runs, db_before>>

(***************************************************************************)
(* Report files and path sanitization                                      *)
(***************************************************************************)
\* os.sep
sep == "/"

\* str(relative_to.parent), the parent of the package directory
parent_path == "/a"

\* str(save_path), the report directory
save_path == "/l/reports/abc"

Letters == {"a", "b", "c", "d", "e", "f", "g", "h", "i", "j", "k", "l", "m",
            "n", "o", "p", "q", "r", "s", "t", "u", "v", "w", "x", "y", "z",
            "A", "B", "C", "D", "E", "F", "G", "H", "I", "J", "K", "L", "M",
            "N", "O", "P", "Q", "R", "S", "T", "U", "V", "W", "X", "Y", "Z"}

IsSep(c) == c = "/" \/ c = "\\"

\* the alternative [/\\] of the regular expression, applied from left to right
RECURSIVE sub_seps(_)
sub_seps(s) ==
    IF s = "" THEN ""
    ELSE (IF IsSep(SubSeq(s, 1, 1)) THEN "_" ELSE SubSeq(s, 1, 1))
         \o sub_seps(SubSeq(s, 2, Len(s)))

\* re.sub(r'^[a-zA-Z]:[/\\]|[/\\]', '_', s), line 66
re_sub(s) ==
    IF /\ Len(s) >= 3
       /\ SubSeq(s, 1, 1) \in Letters
       /\ SubSeq(s, 2, 2) = ":"
       /\ IsSep(SubSeq(s, 3, 3))
    THEN "_" \o sub_seps(SubSeq(s, 4, Len(s)))
    ELSE sub_seps(s)

\* line 66
pattern == re_sub(parent_path) \o "_"

\* str(relative_to.parent) + sep, line 71
removed_path == parent_path \o sep

str_replace_first(s, old, new) ==
    IF \E i \in 1..(Len(s) - Len(old) + 1) : SubSeq(s, i, i + Len(old) - 1) = old
    THEN LET i == CHOOSE i \in 1..(Len(s) - Len(old) + 1) :
                     /\ SubSeq(s, i, i + Len(old) - 1) = old
                     /\ \A j \in 1..(i - 1) : SubSeq(s, j, j + Len(old) - 1) # old
         IN  SubSeq(s, 1, i - 1) \o new \o SubSeq(s, i + Len(old), Len(s))
    ELSE s

\* str.replace(old, new) for a non-empty old: one pass from left to right
RECURSIVE str_replace(_, _, _)
str_replace(s, old, new) ==
    IF Len(s) < Len(old) THEN s
    ELSE IF SubSeq(s, 1, Len(old)) = old
    THEN new \o str_replace(SubSeq(s, Len(old) + 1, Len(s)), old, new)
    ELSE SubSeq(s, 1, 1) \o str_replace(SubSeq(s, 2, Len(s)), old, new)

\* a rendered file: its path, its content, and both as html_report wrote them
HtmlFile(path, data) ==
    [state |-> "rendered", path |-> path, data |-> data,
     orig_path |-> path, orig_data |-> data]

\* the i-th file html_report writes: the index, then one page per source file
Page(i) ==
    IF i = 1
    THEN HtmlFile(save_path \o sep \o "index.html",
                  "<a href=_a_pkg_m2_py.html>/a/pkg/m2.py</a> /a/pkg/m3.py")
    ELSE HtmlFile(save_path \o sep \o "_a_pkg_m" \o ToString(i) \o "_py.html",
                  "<h1>/a/pkg/m" \o ToString(i) \o ".py</h1>")

\* how the open, write and rename of one file can end
FileOutcomes == {"ok", "read fails", "write fails", "rename fails"}

Render_keeps_total(strict, html_ok, xml_ok, xml_exists, pct) ==
    LET failed == ~html_ok \/ ~xml_ok \/ ~(~strict \/ xml_exists)
    IN  [raised |-> failed /\ strict,
         exc |-> IF ~html_ok \/ ~xml_ok THEN "CoverageException" ELSE "AssertionError",
         total |-> IF html_ok THEN Some(pct) ELSE None]

\* generate_coverage_report, lines 53-62, called with strict = not args.dry_run
Render(strict, html_ok, xml_ok, xml_exists, pct) ==
    LET failed == ~html_ok \/ ~xml_ok \/ ~(~strict \/ xml_exists)
    IN  [raised |-> failed /\ strict,
         exc |-> IF ~html_ok \/ ~xml_ok THEN "CoverageException" ELSE "AssertionError",
         total |-> IF failed THEN None ELSE Some(pct)]

Report ==
    /\ pc = "report"
    /\ \E html_ok \in BOOLEAN, xml_ok \in BOOLEAN, xml_exists \in BOOLEAN,
          pct \in Percents, n \in 0..MaxHtml :
         LET r == Render(~args.dry_run, html_ok, xml_ok, xml_exists, pct)
         IN  /\ xml_exists => html_ok /\ xml_ok
             /\ (n > 0) = html_ok
             /\ html' = [i \in 1..n |-> Page(i)]
             /\ rendered' = [called |-> TRUE, html_ok |-> html_ok, xml_ok |-> xml_ok]
             /\ IF r.raised
                THEN /\ Raise(r.exc)
                     /\ UNCHANGED total
                ELSE /\ total' = r.total
                     /\ pc' = "sanitize"
                     /\ UNCHANGED exc
    /\ UNCHANGED <<db_file, disk, entry, args, params, ci_tests, executed,
                   result, cov, report, records, runs, db_before>>

\* index of the next file of the glob, 0 when the loop is over
NextHtml == IF \E i \in 1..Len(html) : html[i].state = "rendered"
            THEN CHOOSE i \in 1..Len(html) :
                    /\ html[i].state = "rendered"
                    /\ \A j \in 1..(i - 1) : html[j].state # "rendered"
            ELSE 0

\* lines 68-74 for one file; an OSError leaves the file as the failing call found it
SanitizeFile(f, outcome) ==
    LET data == str_replace(str_replace(f.data, pattern, ""), removed_path, "")
    IN  CASE outcome = "ok" ->
               [f EXCEPT !.state = "sanitized", !.data = data,
                         !.path = str_replace(f.path, pattern, "")]
          [] outcome = "read fails" -> [f EXCEPT !.state = "failed"]
          [] outcome = "write fails" -> [f EXCEPT !.state = "failed", !.data = ""]
          [] outcome = "rename fails" -> [f EXCEPT !.state = "failed", !.data = data]

\* generate_coverage_report, lines 64-75: one turn of the loop, or the return
Sanitize ==
    /\ pc = "sanitize"
    /\ IF NextHtml = 0
       THEN /\ pc' = "summarize"
            /\ UNCHANGED <<html, exc>>
       ELSE \E outcome \in FileOutcomes :
              /\ html' = [html EXCEPT ![NextHtml] = SanitizeFile(html[NextHtml], outcome)]
              /\ IF outcome = "ok"
                 THEN UNCHANGED <<pc, exc>>
                 ELSE Raise("OSError")
    /\ UNCHANGED <<db_file, disk, entry, args, params, ci_tests, executed,
                   result, cov, total, rendered, report, records, runs, db_before>>

\* unittest.TestResult.wasSuccessful, called at lines 185 and 188
wasSuccessful(res) ==
    /\ Len(res.failures) = 0
    /\ Len(res.errors) = 0
    /\ Len(res.unexpectedSuccesses) = 0

\* what json.dump (line 219) writes for a value of the results list: null for
\* None, a string for a str, an array for a (test, err) pair
json_null == [null |-> TRUE]
json_string(x) == IF x = NoneId THEN json_null ELSE [string |-> x]
json_array(t) == [array |-> [i \in 1..Len(t) |-> json_string(t[i])]]
json_strings(ids) == [i \in 1..Len(ids) |-> json_string(ids[i])]

BuildReport_no_suffix(a, res, test_list, tot) ==
    LET n_failed == Len(res.failures) + Len(res.errors)
        fail_str == ToString(n_failed) \o "/" \o ToString(res.testsRun) \o " tests failed"
        both == res.failures \o res.errors
    IN  [commit |-> a.commit,
         results |-> IF n_failed > 0
                     THEN [i \in 1..Len(both) |->
                              json_array(<<list_tests(both[i].test), both[i].err>>)]
                     ELSE json_strings(list_tests(test_list)),
         status |-> IF wasSuccessful(res) THEN "success" ELSE "failure",
         description |-> IF wasSuccessful(res) THEN "All passed" ELSE fail_str,
         coverage |-> tot]

\* lines 185-204
BuildReport(a, res, test_list, tot) ==
    LET n_failed == Len(res.failures) + Len(res.errors)
        fail_str == ToString(n_failed) \o "/" \o ToString(res.testsRun) \o " tests failed"
        both == res.failures \o res.errors
    IN  [commit |-> a.commit \o (IF a.dry_run THEN "_dry-run" ELSE ""),
         results |-> IF n_failed > 0
                     THEN [i \in 1..Len(both) |->
                              json_array(<<list_tests(both[i].test), both[i].err>>)]
                     ELSE json_strings(list_tests(test_list)),
         status |-> IF wasSuccessful(res) THEN "success" ELSE "failure",
         description |-> IF wasSuccessful(res) THEN "All passed" ELSE fail_str,
         coverage |-> tot]

IsDefaultCommit_never(a) == FALSE

\* args.commit is parser.get_default('commit'), line 180
IsDefaultCommit(a) == a.is_default

\* lines 179-204
Summarize ==
    /\ pc = "summarize"
    /\ IF IsDefaultCommit(args)
       THEN /\ pc' = "done"
            /\ UNCHANGED report
       ELSE /\ report' = BuildReport(args, result, ci_tests, total)
            /\ pc' = "load"
    /\ UNCHANGED <<db_file, disk, entry, args, params, ci_tests, executed,
                   result, cov, total, rendered, html, records, exc, runs, db_before>>

\* the key the existing records are searched for, line 210
SearchKey(a) == a.commit

\* lines 209-213
Upsert(recs, key, new) ==
    IF \E i \in 1..Len(recs) : recs[i].commit = key
    THEN LET idx == CHOOSE i \in 1..Len(recs) :
                       /\ recs[i].commit = key
                       /\ \A j \in 1..(i - 1) : recs[j].commit # key
         IN  [recs EXCEPT ![idx] = new]
    ELSE Append(recs, new)

json_load_lenient(f) ==
    [raised |-> FALSE, recs |-> IF f.kind = "partial" THEN <<>> ELSE f.recs]

\* json.load(json_file), lines 207-208
json_load(f) == [raised |-> f.kind = "partial", recs |-> f.recs]

\* lines 206-215
Load ==
    /\ pc = "load"
    /\ IF db_file.kind = "absent"
       THEN /\ records' = <<report>>
            /\ pc' = "save_open"
            /\ UNCHANGED exc
       ELSE IF json_load(db_file).raised
       THEN /\ Raise("JSONDecodeError")
            /\ UNCHANGED records
       ELSE /\ records' = Upsert(json_load(db_file).recs, SearchKey(args), report)
            /\ pc' = "save_open"
            /\ UNCHANGED exc
    /\ UNCHANGED <<db_file, disk, entry, args, params, ci_tests, executed,
                   result, cov, total, rendered, html, report, runs, db_before>>

\* open(db_file, 'w'), line 218: the file is created or truncated
SaveOpen ==
    /\ pc = "save_open"
    /\ db_file' = Partial(<<>>)
    /\ pc' = "save_dump"
    /\ UNCHANGED <<disk, entry, args, params, ci_tests, executed, result, cov,
                   total, rendered, html, report, records, exc, runs, db_before>>

\* json.dump(records, json_file) and the close of the with block, line 219
SaveDump ==
    /\ pc = "save_dump"
    /\ db_file' = Doc(records)
    /\ pc' = "done"
    /\ UNCHANGED <<disk, entry, args, params, ci_tests, executed, result, cov,
                   total, rendered, html, report, records, exc, runs, db_before>>

\* the process is killed; a kill during json.dump leaves what was flushed so far
Crash ==
    /\ pc \notin Ended
    /\ pc' = "crashed"
    /\ IF pc = "save_dump"
       THEN \E k \in 0..(Len(records) - 1) : db_file' = Partial(SubSeq(records, 1, k))
       ELSE UNCHANGED db_file
    /\ UNCHANGED <<disk, entry, args, params, ci_tests, executed, result, cov,
                   total, rendered, html, report, records, exc, runs, db_before>>

Next ==
    \/ \E c \in Commits, given \in BOOLEAN, d \in BOOLEAN : Main(c, given, d)
    \/ \E c \in BOOLEAN, s \in BOOLEAN, d \in BOOLEAN : CallRunTests(c, s, d)
    \/ Discover
    \/ Validate
    \/ CovStart
    \/ RunSuite
    \/ CovStop
    \/ Report
    \/ Sanitize
    \/ Summarize
    \/ Load
    \/ SaveOpen
    \/ SaveDump
    \/ Crash

Spec == Init /\ [][Next]_vars

(***************************************************************************)
(* run_tests up to its import check, on every suite discovery can build    *)
(***************************************************************************)
InitList ==
    /\ disk \in AllDisks
    /\ Idle

NextList ==
    \/ \E c \in BOOLEAN, s \in BOOLEAN, d \in BOOLEAN : CallRunTests(c, s, d)
    \/ Discover
    \/ Validate

SpecList == InitList /\ [][NextList]_vars

(***************************************************************************)
(* Path sanitization of one report file, on every short name and content   *)
(***************************************************************************)
Alphabet == {"/", "a", "_"}

RECURSIVE StringsOfLen(_)
StringsOfLen(n) ==
    IF n = 0 THEN {""}
    ELSE { c \o t : c \in Alphabet, t \in StringsOfLen(n - 1) }

Strings == UNION { StringsOfLen(n) : n \in 0..MaxLen }

\* a file name has no separator in it
Names == { t \in Strings : \A i \in 1..Len(t) : SubSeq(t, i, i) # sep }

HtmlInputs ==
    { HtmlFile(save_path \o sep \o "index.html", t) : t \in Strings }
    \cup { HtmlFile(save_path \o sep \o t \o ".html", "") : t \in Names }

\* a dry run for an explicit commit has rendered its report
InitSanitize ==
    /\ db_file = Absent
    /\ disk = [ci |-> TestSuite(<<>>), units |-> [i \in 1..test_dirs |-> TestSuite(<<>>)]]
    /\ pc = "sanitize"
    /\ entry = "main"
    /\ args = [commit |-> "abc", is_default |-> FALSE, dry_run |-> TRUE]
    /\ params = [complete |-> TRUE, strict |-> TRUE, dry_run |-> TRUE]
    /\ ci_tests = Gather(disk.ci, disk.units, test_dirs)
    /\ executed = <<>>
    /\ result = EmptyResult
    /\ cov = "configured"
    /\ \E pct \in Percents : total = Some(pct)
    /\ rendered = [called |-> TRUE, html_ok |-> TRUE, xml_ok |-> TRUE]
    /\ \E f \in HtmlInputs : html = <<f>>
    /\ report = NoReport
    /\ records = <<>>
    /\ exc = ""
    /\ runs = 1
    /\ db_before = Absent

NextSanitize == Sanitize

SpecSanitize == InitSanitize /\ [][NextSanitize]_vars

(***************************************************************************)
(* Properties                                                              *)
(***************************************************************************)
HasKey(recs, key) == \E i \in 1..Len(recs) : recs[i].commit = key

\* the record list a process found in the ledger file before it saves
Loaded == IF db_file.kind = "doc" THEN db_file.recs ELSE <<>>

\* a suite whose flattened list has an identifier with the '_Failed' sentinel
HasFailedImport(suite) ==
    LET ids == list_tests(suite)
    IN  \E i \in 1..Len(ids) : startswith(ids[i], "_Failed")

RenderFailed == rendered.called /\ ~(rendered.html_ok /\ rendered.xml_ok)

\* C1: after completed runs the persisted ledger holds at most one record
\* per commit key.
C1_OneRecordPerCommit ==
    pc = "done" =>
        \A i, j \in 1..Len(db_file.recs) :
            db_file.recs[i].commit = db_file.recs[j].commit => i = j

\* C2: when no record of the loaded list has the new record's commit key, the
\* list to save is the loaded list with the new record appended.
C2_AppendWhenAbsent ==
    (pc = "save_open" /\ ~HasKey(Loaded, report.commit)) =>
        records = Append(Loaded, report)

\* C3: when a record of the loaded list has the new record's commit key, the
\* list to save is the loaded list with the new record at that position and
\* every other position as it was.
C3_ReplaceWhenPresent ==
    (pc = "save_open" /\ HasKey(Loaded, report.commit)) =>
        \E i \in 1..Len(Loaded) :
            /\ Loaded[i].commit = report.commit
            /\ records = [Loaded EXCEPT ![i] = report]

C5_DefaultCommitNeverSaves ==
    (entry = "main" /\ args.is_default) =>
        /\ db_file = db_before
        /\ pc \notin {"load", "save_open", "save_dump"}
        /\ records = <<>>
        /\ report = NoReport

C5_Witness ==
    /\ entry = "main"
    /\ args.is_default
    /\ pc = "done"
    /\ rendered.called
    /\ db_file.kind = "doc"

\* C6: no state has left run_tests with the coverage session still started.
C6_CoverageStoppedOnExit ==
    pc \in {"aborted", "returned", "report", "sanitize", "summarize", "load",
            "save_open", "save_dump", "done"} => cov # "started"

\* C7: with strict=True and a FailedImport in the flattened suite, run_tests
\* raises before coverage is started and before any Case executes.
C7_StrictFailsFast ==
    (params.strict /\ HasFailedImport(ci_tests)) =>
        /\ cov = "none"
        /\ executed = <<>>
        /\ pc \in {"validate", "aborted", "crashed"}
        /\ pc = "aborted" => exc = "AssertionError: failed to import"

C7_Witness ==
    /\ params.strict
    /\ HasFailedImport(ci_tests)
    /\ \E i \in 1..Len(Leaves(ci_tests)) : ~IsFailedImport(Leaves(ci_tests)[i])
    /\ pc = "aborted"
    /\ exc = "AssertionError: failed to import"

\* C8: after a crash a reader of the ledger file sees the complete old record
\* list or the complete new one.
C8_SaveIsAtomic ==
    (entry = "main" /\ pc = "crashed") =>
        \/ db_file = db_before
        \/ db_file = Doc(records)

\* C9: a run that aborts leaves the ledger file as it found it, and a ledger
\* file that cannot be parsed is never replaced.
C9_AbortsBeforeLedgerWrite ==
    /\ pc = "aborted" => db_file = db_before
    /\ db_before.kind = "partial" => db_file = db_before

C9_Witness ==
    /\ pc = "aborted"
    /\ exc = "JSONDecodeError"
    /\ db_file.kind = "partial"
    /\ report # NoReport

\* C10: when HTML or XML rendering fails, a non-strict report returns a null
\* percentage and the run goes on, saving its record with coverage null; a
\* strict report raises.
C10_RenderFailureDegrades ==
    (entry = "main" /\ RenderFailed) =>
        IF args.dry_run
        THEN /\ total = None
             /\ exc \notin {"CoverageException", "AssertionError"}
             /\ pc \in {"load", "save_open", "save_dump"} => report.coverage = None
             /\ (pc = "done" /\ ~args.is_default) =>
                   \E i \in 1..Len(db_file.recs) :
                       /\ db_file.recs[i] = report
                       /\ db_file.recs[i].coverage = None
        ELSE /\ pc = "aborted"
             /\ exc = "CoverageException"

C10_Witness ==
    /\ entry = "main"
    /\ args.dry_run
    /\ ~args.is_default
    /\ rendered.called
    /\ rendered.html_ok
    /\ ~rendered.xml_ok
    /\ pc = "done"
    /\ db_file.kind = "doc"

\* states in which run_tests has returned
AfterRunTests == {"returned", "report", "sanitize", "summarize", "load",
                  "save_open", "save_dump", "done"}

\* the suite discovery builds from what is on disk
Discovered == IF params.complete THEN Gather(disk.ci, disk.units, test_dirs)
              ELSE disk.ci

\* ClassName/methodName of each leaf
Ids(leaves) == [i \in 1..Len(leaves) |-> leaves[i].cls \o "/" \o leaves[i].name]

\* C11: a failure on one HTML file does not abort the run, and the other
\* files are still sanitized.
C11_SanitizeFilesIndependently ==
    (\E i \in 1..Len(html) : html[i].state = "failed") =>
        /\ exc # "OSError"
        /\ pc \notin {"sanitize", "crashed"} =>
              \A j \in 1..Len(html) : html[j].state # "rendered"

\* C12: the saved record of a completed non-dry run has status 'success'
\* exactly when failures and errors are empty; with failures it holds one
\* (identifier, text) pair per failure and error, without it holds the
\* identifiers of all tests of the suite.
C12_RecordMatchesResult ==
    (entry = "main" /\ pc = "done" /\ ~args.dry_run /\ ~args.is_default) =>
        LET passed == result.failures = <<>> /\ result.errors = <<>>
            both == result.failures \o result.errors
        IN  /\ \E i \in 1..Len(db_file.recs) : db_file.recs[i] = report
            /\ (report.status = "success") <=> passed
            /\ ~passed =>
                  /\ report.status = "failure"
                  /\ report.results =
                        [i \in 1..Len(both) |->
                            [array |-> <<[string |-> Ids(<<both[i].test>>)[1]],
                                         [string |-> both[i].err]>>]]
            /\ passed => report.results =
                  [i \in 1..Len(Leaves(Discovered)) |->
                      [string |-> Ids(Leaves(Discovered))[i]]]

\* C13: in dry-run mode coverage is never started and no Case executes;
\* run_tests returns the discovered suite, checked for failed imports, with
\* an empty result.
C13_DryRunExecutesNothing ==
    params.dry_run =>
        /\ cov \in {"none", "configured"}
        /\ executed = <<>>
        /\ result = EmptyResult
        /\ pc \in AfterRunTests =>
              /\ cov = "configured"
              /\ ci_tests = Discovered
              /\ ~(params.strict /\ HasFailedImport(ci_tests))

C13_Witness ==
    /\ params.dry_run
    /\ pc = "returned"
    /\ \E i \in 1..Len(Leaves(ci_tests)) : ~IsFailedImport(Leaves(ci_tests)[i])

\* C14: with strict=False a suite with FailedImport entries passes the import
\* check: run_tests goes on to start coverage, or returns the dry-run result.
C14_NonStrictGoesOn ==
    [][(pc = "validate" /\ ~params.strict /\ HasFailedImport(ci_tests)
            /\ pc' # "crashed") =>
         /\ exc' = ""
         /\ pc' = IF params.dry_run THEN "returned" ELSE "cov_start"]_vars

C14_Witness ==
    /\ ~params.strict
    /\ pc = "returned"
    /\ cov = "saved"
    /\ Len(executed) >= 2
    /\ \E i \in 1..Len(executed) : startswith(executed[i], "_Failed")

\* C19: a completed run keeps the record of every commit that had one, and
\* only a non-dry run for that commit replaces it, by its own record.
C19_RealRecordSurvives ==
    (entry = "main" /\ pc = "done" /\ db_before.kind = "doc") =>
        \A c \in Commits : \A i \in 1..Len(db_before.recs) :
            db_before.recs[i].commit = c =>
                \E j \in 1..Len(db_file.recs) :
                    /\ db_file.recs[j].commit = c
                    /\ \/ db_file.recs[j] = db_before.recs[i]
                       \/ /\ ~args.dry_run
                          /\ args.commit = c
                          /\ db_file.recs[j] = report

\* the flattened lists of the first n unit test trees, one after the other
RECURSIVE UnitIds(_)
UnitIds(n) == IF n = 0 THEN <<>> ELSE UnitIds(n - 1) \o list_tests(disk.units[n])

\* C17: list_tests yields one identifier per leaf in depth-first order, and
\* the list of the combined suite is the integration tests' list followed by
\* each unit test tree's list in the order the trees were added.
C17_OneIdPerLeafInOrder ==
    LET ids == list_tests(ci_tests)
    IN  /\ Len(ids) = Len(Leaves(ci_tests))
        /\ ids = Ids(Leaves(ci_tests))
        /\ list_tests(disk.ci) = Ids(Leaves(disk.ci))
        /\ (pc = "validate" /\ params.complete) =>
              ids = list_tests(disk.ci) \o UnitIds(test_dirs)
        /\ (pc = "validate" /\ ~params.complete) => ids = list_tests(disk.ci)

C17_Witness ==
    /\ pc = "validate"
    /\ params.complete
    /\ Len(Leaves(disk.ci)) >= 2
    /\ disk.units[1].tests = <<>>
    /\ disk.units[2].tests # <<>>
    /\ disk.units[4].tests # <<>>
    /\ Len(list_tests(ci_tests)) >= 4

\* the positions at which p occurs in s
Occ(s, p) == { i \in 1..(Len(s) - Len(p) + 1) : SubSeq(s, i, i + Len(p) - 1) = p }

\* the occurrences a pass from left to right deletes: each occurrence that
\* does not overlap an earlier deleted one
Deleted(s, p) ==
    LET chosen[i \in 0..Len(s)] ==
            /\ i \in Occ(s, p)
            /\ \A j \in 1..(i - 1) : j > i - Len(p) => ~chosen[j]
    IN  { i \in 1..Len(s) : chosen[i] }

\* the positions of the result after which an occurrence was deleted
Seams(s, p) ==
    { (m - 1) - Len(p) * Cardinality({ j \in Deleted(s, p) : j < m }) :
        m \in Deleted(s, p) }

\* after is before without its deleted occurrences, and p occurs in after
\* only across a seam
DeletedOnce(before, after, p) ==
    /\ Len(after) = Len(before) - Len(p) * Cardinality(Deleted(before, p))
    /\ \A q \in Occ(after, p) :
          \E t \in Seams(before, p) : q <= t /\ t <= q + Len(p) - 2

\* C15 as stated: after sanitization no occurrence of the removed path is
\* left in a file's content and none of the pattern in its name.
C15_NoPathRemains ==
    \A i \in 1..Len(html) :
        html[i].state = "sanitized" =>
            /\ Occ(html[i].data, removed_path) = {}
            /\ Occ(html[i].path, pattern) = {}

\* C15 as amended: sanitization deletes every occurrence of the removed path
\* from the content and of the pattern from the name in one pass from left to
\* right; an occurrence is left only where a deletion has joined the text on
\* its two sides.
C15_PathRemainsOnlyAtSeams ==
    \A i \in 1..Len(html) :
        html[i].state = "sanitized" =>
            /\ DeletedOnce(str_replace(html[i].orig_data, pattern, ""),
                           html[i].data, removed_path)
            /\ DeletedOnce(html[i].orig_path, html[i].path, pattern)

C15_Witness ==
    \E i \in 1..Len(html) :
        /\ html[i].state = "sanitized"
        /\ Cardinality(Occ(html[i].orig_data, removed_path)) = 2
        /\ Occ(html[i].data, removed_path) = {}

\* the place of each step in the order of section 2
Rank(p) ==
    CASE p = "discover" -> 1
      [] p = "validate" -> 2
      [] p = "cov_start" -> 3
      [] p = "run" -> 4
      [] p = "cov_stop" -> 5
      [] p = "report" -> 6
      [] p = "sanitize" -> 7
      [] p = "summarize" -> 8
      [] p = "load" -> 9
      [] p = "save_open" -> 10
      [] p = "save_dump" -> 11
      [] OTHER -> 12

Pending == { i \in 1..Len(html) : html[i].state = "rendered" }

\* a process moves forward through the steps; only the sanitization loop
\* stays in its step, taking one more file each turn
StepsForward ==
    /\ pc' # pc => \/ pc \in Ended /\ pc' = "discover"
                   \/ Rank(pc') > Rank(pc)
    /\ pc' = pc => /\ pc = "sanitize"
                   /\ Cardinality(Pending') < Cardinality(Pending)

====
